---- MODULE Spec2Model ----
(***************************************************************************)
(* Hybrid local/cloud ride storage of the Cyclora app.                     *)
(*                                                                         *)
(* HybridRideStorageService (src/services/backgroundProcessor.ts, lines    *)
(* 321-592) coordinates the local SQLite store (src/services/              *)
(* rideStorage.ts) and the remote Supabase store (src/services/            *)
(* supabaseRides.ts).  All coordinator operations are async functions on   *)
(* one JavaScript thread: an action of this model is the stretch of code   *)
(* between two awaits, together with the effect of the adapter call that   *)
(* the await waited for.                                                   *)
(*                                                                         *)
(* Time is in milliseconds, as Date.now() and Date.getTime() give it.  A   *)
(* ride's timestamp is the millisecond value new Date(ride.timestamp)      *)
(* parses out of its ISO-8601 string (toISOString() keeps milliseconds, so *)
(* nothing is lost between the string and the number).                     *)
(***************************************************************************)
EXTENDS Integers, Sequences, FiniteSets, TLC

\* ----------------------------------------------------------------- bounds
MaxRides == 2       \* saveRide is called at most this many times
MaxTicks == 1       \* the clock advances at most this many times
TickMs == 1000      \* one clock advance, in milliseconds (one second)
MaxCalls == 2       \* migration calls that may be suspended at the same time
MaxRows == 25       \* rows the remote table holds in a page traversal
MaxTied == 4        \* remote rows when rows may share a timestamp
MaxUsers == 2       \* callers whose coordinator calls may be in flight at once

\* -------------------------------------------------------------- constants
HOURS_24 == 24 * 60 * 60 * 1000
PAGE_SIZE == 10

StartClock == 2 * HOURS_24
NoSummary == "none"
NoCursor == -1
Texts == {"text"}
\* the age (now - timestamp) a ride may have when it is saved
SaveAges == {0, HOURS_24 - TickMs}

Outcomes == BOOLEAN    \* TRUE: the adapter call returns; FALSE: it throws

VARIABLES
  clock,        \* Date.now()
  local,        \* rows of the SQLite table rides
  remote,       \* rows of public.rides of the signed-in user
  nextId,       \* the next fresh id Crypto.randomUUID() hands out
  isMigrating,  \* HybridRideStorageService.isMigrating
  timers,       \* pending setTimeout(() => migrateOldRides(), 5000) callbacks
  passes,       \* the migration calls that are suspended at an await
  user,         \* per caller, its coordinator call that is suspended at an await
  ret,          \* the call that has just settled, as its caller sees it
  deleted,      \* history: the ids of rides deleteRide has been called with
  updated,      \* history: per ride id, the text of the last updateRideAISummary that returned
  facade        \* the ride history fields of the useAppStore state

vars == <<clock, local, remote, nextId, isMigrating, timers, passes, user, ret,
          deleted, updated, facade>>

\* ------------------------------------------------------------------ rides
Ride(id, ts, sum) == [id |-> id, ts |-> ts, sum |-> sum]

Ids(rows) == {r.id : r \in rows}

Range(s) == {s[i] : i \in 1..Len(s)}

SeqIds(s) == {s[i].id : i \in 1..Len(s)}

\* ------------------------------------------------- the local store adapter
\* ORDER BY timestamp DESC: every order of the rows that is descending in
\* timestamp (SQLite leaves the order of equal timestamps open).
RECURSIVE Perms(_)
Perms(S) ==
  IF S = {} THEN {<<>>}
  ELSE UNION {{<<x>> \o p : p \in Perms(S \ {x})} : x \in S}

IsDescending(s) == \A i \in 1..(Len(s) - 1) : s[i].ts >= s[i + 1].ts

GetAllRides(rows) == {s \in Perms(rows) : IsDescending(s)}

\* mutant: the insert stores nothing
LocalSaveNothing(rows, ride) == rows

LocalSaveRide(rows, ride) == rows \cup {ride}

\* UPDATE rides SET aiSummary = ? WHERE id = ?  (no row matched: no error)
UpdateSummaryRows(rows, id, text) ==
  {IF r.id = id THEN [r EXCEPT !.sum = text] ELSE r : r \in rows}

\* DELETE FROM rides WHERE id = ?  (no row matched: no error)
DeleteRows(rows, id) == {r \in rows : r.id # id}

\* ------------------------------------------------ the remote store adapter
\* id TEXT PRIMARY KEY: one insert statement carries the whole batch and is
\* rejected as a whole when any of its ids is already stored.
UploadConflict(rows, batch) == SeqIds(batch) \cap Ids(rows) # {}

UploadRides(rows, batch) == rows \cup Range(batch)

\* ------------------------------------------------------ the tier boundary
CutoffTime(now) == now - HOURS_24

IsRecentRide(ride, now) == ride.ts > CutoffTime(now)

\* mutant: a ride exactly at the cutoff is not old
IsOldRideStrict(ride, now) == ride.ts < CutoffTime(now)

IsOldRide(ride, now) == ride.ts <= CutoffTime(now)

\* mutant: getRecentRides keeps the rides at or before the cutoff
GetRecentRidesInverted(all, now) == SelectSeq(all, LAMBDA r : IsOldRide(r, now))

GetRecentRides(all, now) == SelectSeq(all, LAMBDA r : IsRecentRide(r, now))

GetOldRides(all, now) == SelectSeq(all, LAMBDA r : IsOldRide(r, now))

\* .order('timestamp', { ascending: false }): the orders the rows may come
\* in, rows of one timestamp in any order
RECURSIVE NewestFirst(_)
NewestFirst(rows) ==
  IF rows = {} THEN {<<>>}
  ELSE LET newest == {r \in rows : \A q \in rows : q.ts <= r.ts}
       IN UNION {{<<r>> \o s : s \in NewestFirst(rows \ {r})} : r \in newest}

\* mutant: the cursor filter is .lte('timestamp', cursor)
RemoteMatchedInclusive(all, cursor) ==
  SelectSeq(all, LAMBDA r : cursor = NoCursor \/ r.ts <= cursor)

\* cursor-paginated fetch of the user's rows, newest first
RemoteMatched(all, cursor) ==
  SelectSeq(all, LAMBDA r : cursor = NoCursor \/ r.ts < cursor)

Min(a, b) == IF a < b THEN a ELSE b

RemotePage(all, cursor, pageSize) ==
  LET matched == RemoteMatched(all, cursor)
      data == SubSeq(matched, 1, Min(Len(matched), pageSize + 1))
      rides == SubSeq(data, 1, Min(Len(data), pageSize))
      hasMore == Len(data) > pageSize
  IN [rides |-> rides,
      hasMore |-> hasMore,
      nextCursor |-> IF hasMore /\ Len(rides) > 0 THEN rides[Len(rides)].ts
                     ELSE NoCursor,
      totalCount |-> Len(matched)]

\* --------------------------------------------------------- calls in flight
\* A migration call suspended at an await.  up and del are the ids the pass
\* has uploaded and the ids it has issued a local delete for.
\* cutoff is the cutoffTime the pass has computed (0 before it has).
\* by is the caller that awaits the call (0: a timer, or a caller that is
\* not followed further).
NewPass(op, by) == [op |-> op, by |-> by, pc |-> "read", batch |-> <<>>,
                    cutoff |-> 0, up |-> {}, del |-> {}]

\* The callers of the coordinator that are followed: each awaits its calls
\* one after the other, and the callers run independently of one another.
\* The callers there are in a run are the domain of user.
Callers == 1..MaxUsers

\* The call of a caller in flight, if any.  faults are the adapters that have
\* thrown during the call, sync says that the call follows a
\* forceFullMigration() that has just returned,
\* seen the rows the earlier pages of the traversal returned (walk: the
\* traversal began with no cursor).
IdleUser == [op |-> "none", pc |-> "idle", id |-> 0, text |-> NoSummary,
             after |-> 0, localRides |-> <<>>, faults |-> {},
             cursor |-> NoCursor, pageSize |-> PAGE_SIZE, seen |-> <<>>,
             walk |-> FALSE, sync |-> FALSE, localCount |-> 0,
             oldLocalRidesCount |-> 0]

NoUsers == [c \in Callers |-> IdleUser]

\* one caller alone
OneUser == [c \in {1} |-> IdleUser]

\* every call of every caller has returned
Returned == \A c \in DOMAIN user : user[c] = IdleUser

\* A settled call: exc says whether it threw, by is its caller.
NoRet == [op |-> "none", by |-> 0, res |-> "none", exc |-> FALSE, id |-> 0, up |-> {},
          del |-> {}, cutoff |-> 0, after |-> 0, localRides |-> <<>>, remoteRides |-> <<>>,
          hasMoreRemote |-> FALSE, nextCursor |-> NoCursor, totalCount |-> 0,
          text |-> NoSummary, faults |-> {},
          cursor |-> NoCursor, pageSize |-> PAGE_SIZE, seen |-> <<>>,
          walk |-> FALSE, sync |-> FALSE, localCount |-> 0, remoteCount |-> 0,
          oldLocalRidesCount |-> 0]

Settled(op, res, exc) == [NoRet EXCEPT !.op = op, !.res = res, !.exc = exc]

RemoveAt(s, i) == SubSeq(s, 1, i - 1) \o SubSeq(s, i + 1, Len(s))

\* a caller that runs no function of the store; pc is the await its
\* loadRideHistory, stopRideTracking, forceSync or deleteRide is at and
\* rideId the id saveRide returned to stopRideTracking
NoAct == [pc |-> "none", rideId |-> 0]

\* the store as create() builds it; acts are the calls of its functions in
\* flight and more holds the loadMoreRides calls suspended at an await
NoFacade == [localRides |-> <<>>, remoteRides |-> <<>>,
             hasMoreRemoteRides |-> FALSE, nextRemoteCursor |-> NoCursor,
             totalRideCount |-> 0, isLoading |-> FALSE, isLoadingMore |-> FALSE,
             more |-> <<>>, acts |-> [c \in Callers |-> NoAct]]

\* no updateRideAISummary call has returned yet
NoUpdates == [id \in 0..MaxRides |-> NoSummary]

Init ==
  /\ clock = StartClock
  /\ local = {}
  /\ remote = {}
  /\ nextId = 1
  /\ isMigrating = FALSE
  /\ timers = 0
  /\ passes = <<>>
  /\ user = NoUsers
  /\ ret = NoRet
  /\ deleted = {}
  /\ updated = NoUpdates
  /\ facade = NoFacade

\* no settled call is waiting for its caller to go on
Quiet == ret = NoRet

\* caller c has no call in flight, in the coordinator or in the store
Free(c) ==
  /\ c \in DOMAIN user
  /\ user[c] = IdleUser
  /\ facade.acts[c].pc = "none"
  /\ \A i \in 1..Len(passes) : passes[i].by # c

\* the caller that makes the next call: the first that has none in flight
FirstFree(c) == Free(c) /\ \A d \in 1..(c - 1) : ~Free(d)

\* the wall clock advances
Tick ==
  /\ Quiet
  /\ clock < StartClock + MaxTicks * TickMs
  /\ clock' = clock + TickMs
  /\ UNCHANGED <<local, remote, nextId, isMigrating, timers, passes, user, ret,
               deleted, updated, facade>>

\* The continuation of the caller of a settled call runs before anything
\* else does (promise reactions are microtasks).
Deliver ==
  /\ ret # NoRet
  /\ ret' = NoRet
  /\ UNCHANGED <<clock, local, remote, nextId, isMigrating, timers, passes, user,
                 deleted, updated, facade>>

\* ------------------------------------------------------- migration passes
\* i is a migration call in flight
Running(i) == i \in 1..Len(passes)

\* mutant: the check of the flag is missing
MigrationNeverBlocked(flag) == FALSE

\* if (this.isMigrating) at the head of both migration functions
MigrationBlocked(flag) == flag

\* mutant: the catch block of forceFullMigration swallows too
RethrowsNever(op) == FALSE

\* mutant: the catch block of migrateOldRides rethrows too
RethrowsAlways(op) == TRUE

\* catch: migrateOldRides logs and swallows, forceFullMigration rethrows
Rethrows(op) == op = "force"

\* mutant: the flag is cleared at the end of the try block, not in finally
FinallyFlagOnSuccess(res) == res # "ok"

\* finally { this.isMigrating = false }
FinallyFlag(res) == FALSE

\* mutant: the upload error is swallowed and the pass goes on to delete
AfterUploadErrorGoesOn(t) == "delete"

\* the pass after uploadRides threw: "done", or the position it goes on from
AfterUploadError(t) == "done"

\* the pass after uploadRides returned: toDelete are the rides to delete
AfterUpload(t, toDelete) ==
  [t EXCEPT !.pc = IF Len(toDelete) = 0 THEN "done" ELSE "delete",
            !.up = SeqIds(t.batch), !.batch = toDelete]

\* the pass i ends with res: the finally block, then the caller sees it
PassEnds(i, t, res) ==
  /\ passes' = RemoveAt(passes, i)
  /\ isMigrating' = FinallyFlag(res)
  /\ ret' = [Settled(t.op, res, res # "ok" /\ Rethrows(t.op)) EXCEPT
               !.by = t.by, !.up = t.up, !.del = t.del, !.cutoff = t.cutoff]

\* the pass i goes on as t
PassGoesOn(i, t) ==
  /\ passes' = [passes EXCEPT ![i] = t]
  /\ UNCHANGED <<isMigrating, ret>>

\* mutant: forceFullMigration returns silently when re-entered, as
\* migrateOldRides does
BlockedSilently(op) == Settled(op, "skipped", FALSE)

\* a call that finds the flag set: migrateOldRides returns (and so does the
\* initialize() that awaits it), forceFullMigration throws 'Migration
\* already in progress'
Blocked(op) ==
  IF op = "force" THEN Settled("force", "inProgress", TRUE)
  ELSE Settled(op, "skipped", FALSE)

\* migrateOldRides() up to its first await; op is "migrate", or "init" when
\* the initialize() of caller by makes the call and awaits it
MigrateOldRidesFrom(op, by) ==
  /\ Quiet
  /\ Len(passes) < MaxCalls
  /\ IF MigrationBlocked(isMigrating)
     THEN /\ ret' = [Blocked(op) EXCEPT !.by = by]
          /\ UNCHANGED <<isMigrating, passes>>
     ELSE /\ isMigrating' = TRUE
          /\ passes' = Append(passes, NewPass(op, by))
          /\ UNCHANGED ret
  /\ UNCHANGED <<clock, local, remote, nextId, user, deleted, updated, facade>>

MigrateOldRidesCall == MigrateOldRidesFrom("migrate", 0)

\* the timer saveRide set fires
TimerFire ==
  /\ timers > 0
  /\ timers' = timers - 1
  /\ MigrateOldRidesCall

\* migrateOldRides() called on its own: by a caller of the coordinator, or by
\* an initialize() whose caller is left out
DirectMigrate ==
  /\ MigrateOldRidesCall
  /\ UNCHANGED timers

\* initialize() of caller by: initializeDatabase() returns or throws; when
\* it has returned, migrateOldRides() is called and awaited
Initialize(by, ok) ==
  /\ IF ok
     THEN MigrateOldRidesFrom("init", by)
     ELSE /\ Quiet
          /\ ret' = [Settled("init", "localInitFailed", TRUE) EXCEPT
                       !.by = by, !.faults = {"local"}]
          /\ UNCHANGED <<clock, local, remote, nextId, isMigrating, passes,
                         user, deleted, updated, facade>>
  /\ UNCHANGED timers

\* await this.getOldRides() returns or throws
MigrateRead(i, ok) ==
  /\ Quiet
  /\ Running(i)
  /\ passes[i].op # "force" /\ passes[i].pc = "read"
  /\ IF ok
     THEN \E all \in GetAllRides(local) :
            LET oldRides == GetOldRides(all, clock)
                t == [passes[i] EXCEPT !.cutoff = CutoffTime(clock)]
            IN IF Len(oldRides) = 0
               THEN PassEnds(i, t, "ok")
               ELSE PassGoesOn(i, [t EXCEPT !.pc = "upload", !.batch = oldRides])
     ELSE PassEnds(i, passes[i], "readFailed")
  /\ UNCHANGED <<clock, local, remote, nextId, timers, user, deleted, updated, facade>>

\* forceFullMigration() up to its first await; store is the facade as the
\* caller by has set it before the call
ForceCallSets(store, by) ==
  /\ Quiet
  /\ Len(passes) < MaxCalls
  /\ IF MigrationBlocked(isMigrating)
     THEN /\ ret' = [Blocked("force") EXCEPT !.by = by]
          /\ UNCHANGED <<isMigrating, passes>>
     ELSE /\ isMigrating' = TRUE
          /\ passes' = Append(passes, NewPass("force", by))
          /\ UNCHANGED ret
  /\ facade' = store
  /\ UNCHANGED <<clock, local, remote, nextId, timers, user, deleted, updated>>

\* forceFullMigration() called from outside the facade
ForceCall == ForceCallSets(facade, 0)

\* await rideStorageService.getAllRides() returns or throws
ForceRead(i, ok) ==
  /\ Quiet
  /\ Running(i)
  /\ passes[i].op = "force" /\ passes[i].pc = "read"
  /\ IF ok
     THEN \E all \in GetAllRides(local) :
            IF Len(all) = 0
            THEN PassEnds(i, passes[i], "ok")
            ELSE PassGoesOn(i, [passes[i] EXCEPT !.pc = "upload", !.batch = all])
     ELSE PassEnds(i, passes[i], "readFailed")
  /\ UNCHANGED <<clock, local, remote, nextId, timers, user, deleted, updated, facade>>

\* mutant: forceFullMigration filters the rides to delete the wrong way round
RidesToDeleteInverted(t, now) ==
  IF t.op = "force" THEN GetRecentRides(t.batch, now) ELSE t.batch

\* the rides a pass deletes locally once its upload has returned:
\* migrateOldRides all it uploaded, forceFullMigration those that are old now
RidesToDelete(t, now) ==
  IF t.op = "force" THEN GetOldRides(t.batch, now) ELSE t.batch

\* await supabaseRidesService.uploadRides(...) returns or throws
PassUpload(i, ok) ==
  /\ Quiet
  /\ Running(i)
  /\ passes[i].pc = "upload"
  /\ LET t == passes[i]
     IN IF ok /\ ~UploadConflict(remote, t.batch)
        THEN LET u == AfterUpload(IF t.op = "force"
                                  THEN [t EXCEPT !.cutoff = CutoffTime(clock)]
                                  ELSE t,
                                  RidesToDelete(t, clock))
             IN /\ remote' = UploadRides(remote, t.batch)
                /\ IF u.pc = "done" THEN PassEnds(i, u, "ok") ELSE PassGoesOn(i, u)
        ELSE /\ UNCHANGED remote
             /\ IF AfterUploadError(t) = "done"
                THEN PassEnds(i, t, "uploadFailed")
                ELSE PassGoesOn(i, [t EXCEPT !.pc = AfterUploadError(t)])
  /\ UNCHANGED <<clock, local, nextId, timers, user, deleted, updated, facade>>

\* await rideStorageService.deleteRide(ride.id) of the loop returns or throws
PassDelete(i, ok) ==
  /\ Quiet
  /\ Running(i)
  /\ passes[i].pc = "delete"
  /\ LET t == passes[i]
         id == Head(t.batch).id
         issued == [t EXCEPT !.del = t.del \cup {id}, !.batch = Tail(t.batch)]
     IN IF ok
        THEN /\ local' = DeleteRows(local, id)
             /\ IF Len(issued.batch) = 0 THEN PassEnds(i, issued, "ok")
                ELSE PassGoesOn(i, issued)
        ELSE /\ UNCHANGED local
             /\ PassEnds(i, issued, "deleteFailed")
  /\ UNCHANGED <<clock, remote, nextId, timers, user, deleted, updated, facade>>

\* ------------------------------------------------- the other operations
\* mutant: saveRide clears the pending timers before it sets its own
ScheduleDebounced(pending) == 1

\* setTimeout(() => this.migrateOldRides(), 5000): one more pending timer
Schedule(pending) == pending + 1

\* saveRide(rideData) of caller by (0: a caller that is not followed): the
\* local insert, then the timer, then the id
SaveRideBy(by, age, ok) ==
  /\ Quiet
  /\ nextId <= MaxRides
  /\ IF ok
     THEN /\ local' = LocalSaveRide(local, Ride(nextId, clock - age, NoSummary))
          /\ nextId' = nextId + 1
          /\ timers' = Schedule(timers)
          /\ ret' = [Settled("save", "ok", FALSE) EXCEPT !.by = by, !.id = nextId]
     ELSE /\ ret' = [Settled("save", "localFailed", TRUE) EXCEPT !.by = by]
          /\ UNCHANGED <<local, nextId, timers>>
  /\ UNCHANGED <<clock, remote, isMigrating, passes, user, deleted, updated, facade>>

SaveRide(age, ok) == SaveRideBy(0, age, ok)

\* deleteRide(rideId) up to the end of the local delete
DeleteLocal(id, ok) ==
  /\ Quiet
  /\ id < nextId
  /\ local' = IF ok THEN DeleteRows(local, id) ELSE local
  /\ deleted' = deleted \cup ({id} \ {0})
  /\ \E c \in Callers :
       /\ FirstFree(c)
       /\ user' = [user EXCEPT ![c] =
                     [IdleUser EXCEPT !.op = "delete", !.pc = "deleteRemote",
                                      !.id = id,
                                      !.faults = IF ok THEN {} ELSE {"local"}]]
  /\ UNCHANGED <<clock, remote, nextId, isMigrating, timers, passes, ret,
                 updated, facade>>

\* mutant: the remote delete is attempted only when the local one threw
AttemptsRemoteDeleteAfterLocalFault(faults) == "local" \in faults

\* the second try block of deleteRide is entered whatever the first did
AttemptsRemoteDelete(faults) == TRUE

\* mutant: deleteRide rethrows what an adapter threw
DeleteThrowsOnFault(faults) == faults # {}

\* both catch blocks of deleteRide log and go on
DeleteThrows(faults) == FALSE

\* the remote delete of the deleteRide of caller c returns or throws; both
\* are swallowed
DeleteRemote(c, ok) ==
  /\ Quiet
  /\ c \in DOMAIN user
  /\ user[c].pc = "deleteRemote"
  /\ remote' = IF ok /\ AttemptsRemoteDelete(user[c].faults)
                THEN DeleteRows(remote, user[c].id) ELSE remote
  /\ user' = [user EXCEPT ![c] = IdleUser]
  /\ LET faults == user[c].faults \cup (IF ok THEN {} ELSE {"remote"})
     IN ret' = [Settled("delete", IF ok THEN "ok" ELSE "remoteFailed",
                        DeleteThrows(faults))
                  EXCEPT !.by = c, !.id = user[c].id, !.faults = faults]
  /\ UNCHANGED <<clock, local, nextId, isMigrating, timers, passes,
                 deleted, updated, facade>>

\* updateRideAISummary(rideId, aiSummary) of caller c up to the end of the
\* local update
UpdateLocalBy(c, id, text, ok) ==
  /\ Quiet
  /\ id < nextId
  /\ c \in DOMAIN user
  /\ user[c] = IdleUser
  /\ IF ok
     THEN /\ local' = UpdateSummaryRows(local, id, text)
          /\ ret' = [Settled("update", "ok", FALSE) EXCEPT
                       !.by = c, !.id = id, !.text = text]
          /\ updated' = [updated EXCEPT ![id] = text]
          /\ UNCHANGED user
     ELSE /\ user' = [user EXCEPT ![c] =
                        [IdleUser EXCEPT !.op = "update", !.pc = "updateRemote",
                                         !.id = id, !.text = text,
                                         !.faults = {"local"}]]
          /\ UNCHANGED <<local, ret, updated>>
  /\ UNCHANGED <<clock, remote, nextId, isMigrating, timers, passes,
                 deleted, facade>>

\* updateRideAISummary called by a caller that has no call in flight
UpdateLocal(id, text, ok) ==
  \E c \in Callers : FirstFree(c) /\ UpdateLocalBy(c, id, text, ok)

\* the remote update of the updateRideAISummary of caller c returns or throws
UpdateRemote(c, ok) ==
  /\ Quiet
  /\ c \in DOMAIN user
  /\ user[c].pc = "updateRemote"
  /\ remote' = IF ok THEN UpdateSummaryRows(remote, user[c].id, user[c].text)
                ELSE remote
  /\ user' = [user EXCEPT ![c] = IdleUser]
  /\ ret' = [Settled("update", IF ok THEN "remote" ELSE "failed", ~ok)
               EXCEPT !.by = c, !.id = user[c].id, !.text = user[c].text,
                      !.faults = user[c].faults \cup (IF ok THEN {} ELSE {"remote"})]
  /\ updated' = IF ok THEN [updated EXCEPT ![user[c].id] = user[c].text]
                 ELSE updated
  /\ UNCHANGED <<clock, local, nextId, isMigrating, timers, passes,
                 deleted, facade>>

\* mutant: getPaginatedRides cuts the local rides to one page
LocalRidesPaginated(recent, pageSize) ==
  SubSeq(recent, 1, Min(Len(recent), pageSize))

\* the local rides getPaginatedRides returns: all that getRecentRides() gave
LocalRidesPage(recent, pageSize) == recent

\* getPaginatedRides(cursor, pageSize) is called by caller c and waits for
\* the local read of getRecentRides().  after is the id returned by the
\* saveRide that settled just before the call, if one did; seen are the rows
\* of the earlier pages of the traversal and walk says that the traversal
\* began with no cursor.
PageFromBy(c, after, cursor, pageSize, seen, walk) ==
  /\ c \in DOMAIN user
  /\ user[c] = IdleUser
  /\ user' = [user EXCEPT ![c] =
                [IdleUser EXCEPT
                   !.op = "page", !.pc = "pageLocal", !.after = after,
                   !.cursor = cursor, !.pageSize = pageSize,
                   !.seen = seen, !.walk = walk]]
  /\ ret' = NoRet
  /\ UNCHANGED <<clock, local, remote, nextId, isMigrating, timers, passes,
                 deleted, updated, facade>>

\* getPaginatedRides(cursor, pageSize) called by a caller that has no call
\* in flight
PageFrom(after, cursor, pageSize, seen, walk) ==
  \E c \in Callers :
    FirstFree(c) /\ PageFromBy(c, after, cursor, pageSize, seen, walk)

\* getPaginatedRides() called with its default arguments
GetPaginatedRidesCall(after) ==
  PageFrom(after, NoCursor, PAGE_SIZE, <<>>, TRUE)

\* the getRecentRides() of the getPaginatedRides of caller c returns, with
\* the rows read and the cutoff taken at that moment, or throws
GetRecentRidesReturns(c, ok) ==
  /\ Quiet
  /\ c \in DOMAIN user
  /\ user[c].pc = "pageLocal"
  /\ IF ok
     THEN /\ \E all \in GetAllRides(local) :
               user' = [user EXCEPT
                          ![c].pc = "pageRemote",
                          ![c].localRides =
                             LocalRidesPage(GetRecentRides(all, clock),
                                            user[c].pageSize)]
          /\ UNCHANGED ret
     ELSE /\ ret' = [Settled("page", "localFailed", TRUE) EXCEPT
                       !.by = c, !.faults = {"local"}]
          /\ user' = [user EXCEPT ![c] = IdleUser]
  /\ UNCHANGED <<clock, local, remote, nextId, isMigrating, timers, passes,
                 deleted, updated, facade>>

\* mutant: a failed remote fetch is reported as an empty last page
PageRemoteFailedEmptyPage(u) ==
  [Settled("page", "ok", FALSE) EXCEPT
     !.localRides = u.localRides, !.totalCount = Len(u.localRides)]

\* getPaginatedRides has no try block: what the remote fetch throws reaches
\* the caller
PageRemoteFailed(u) == Settled("page", "remoteFailed", TRUE)

\* the remote page of the getPaginatedRides() of caller c returns or throws
PageRemote(c, ok) ==
  /\ Quiet
  /\ c \in DOMAIN user
  /\ user[c].pc = "pageRemote"
  /\ user' = [user EXCEPT ![c] = IdleUser]
  /\ LET u == user[c]
     IN IF ok
        THEN \E all \in NewestFirst(remote) :
               LET remoteData == RemotePage(all, u.cursor, u.pageSize)
               IN ret' = [Settled("page", "ok", FALSE) EXCEPT
                            !.by = c, !.after = u.after,
                            !.cursor = u.cursor, !.pageSize = u.pageSize,
                            !.seen = u.seen, !.walk = u.walk,
                            !.localRides = u.localRides,
                            !.remoteRides = remoteData.rides,
                            !.hasMoreRemote = remoteData.hasMore,
                            !.nextCursor = remoteData.nextCursor,
                            !.totalCount = Len(u.localRides) + remoteData.totalCount]
        ELSE ret' = [PageRemoteFailed(u) EXCEPT
                       !.by = c, !.after = u.after, !.cursor = u.cursor,
                       !.pageSize = u.pageSize, !.faults = {"remote"}]
  /\ UNCHANGED <<clock, local, remote, nextId, isMigrating, timers, passes,
                 deleted, updated, facade>>

\* getPaginatedRides() called when nothing has just settled
PageLocal ==
  /\ Quiet
  /\ GetPaginatedRidesCall(0)

\* the caller of saveRide goes on to getPaginatedRides() at once
PageAfterSave ==
  /\ ret.op = "save" /\ ret.res = "ok"
  /\ GetPaginatedRidesCall(ret.id)

Next ==
  \/ Tick
  \/ Deliver
  \/ TimerFire
  \/ DirectMigrate
  \/ ForceCall
  \/ \E i \in 1..MaxCalls, ok \in Outcomes : MigrateRead(i, ok)
  \/ \E i \in 1..MaxCalls, ok \in Outcomes : ForceRead(i, ok)
  \/ \E i \in 1..MaxCalls, ok \in Outcomes : PassUpload(i, ok)
  \/ \E i \in 1..MaxCalls, ok \in Outcomes : PassDelete(i, ok)
  \/ \E age \in SaveAges, ok \in Outcomes : SaveRide(age, ok)
  \/ \E id \in 0..MaxRides, ok \in Outcomes : DeleteLocal(id, ok)
  \/ \E c \in Callers, ok \in Outcomes : DeleteRemote(c, ok)
  \/ \E id \in 0..MaxRides, text \in Texts, ok \in Outcomes : UpdateLocal(id, text, ok)
  \/ \E c \in Callers, ok \in Outcomes : UpdateRemote(c, ok)
  \/ PageLocal
  \/ \E c \in Callers, ok \in Outcomes : GetRecentRidesReturns(c, ok)
  \/ \E c \in Callers, ok \in Outcomes : PageRemote(c, ok)
  \/ PageAfterSave

Spec == Init /\ [][Next]_vars

\* The writers of the two stores alone: saves, deletes and migration passes.
\* The calls left out write neither an id, a timestamp nor the flag.
MigrationNext ==
  \/ Tick
  \/ Deliver
  \/ TimerFire
  \/ DirectMigrate
  \/ ForceCall
  \/ \E i \in 1..MaxCalls, ok \in Outcomes : MigrateRead(i, ok)
  \/ \E i \in 1..MaxCalls, ok \in Outcomes : ForceRead(i, ok)
  \/ \E i \in 1..MaxCalls, ok \in Outcomes : PassUpload(i, ok)
  \/ \E i \in 1..MaxCalls, ok \in Outcomes : PassDelete(i, ok)
  \/ \E age \in SaveAges, ok \in Outcomes : SaveRide(age, ok)
  \/ \E id \in 0..MaxRides, ok \in Outcomes : DeleteLocal(id, ok)
  \/ \E c \in Callers, ok \in Outcomes : DeleteRemote(c, ok)

MigrationSpec == Init /\ [][MigrationNext]_vars

\* the app as it starts when one caller alone calls the coordinator
InitAlone ==
  /\ clock = StartClock
  /\ local = {}
  /\ remote = {}
  /\ nextId = 1
  /\ isMigrating = FALSE
  /\ timers = 0
  /\ passes = <<>>
  /\ user = OneUser
  /\ ret = NoRet
  /\ deleted = {}
  /\ updated = NoUpdates
  /\ facade = NoFacade

\* Every adapter call a migration pass awaits returns or throws in the end,
\* and the caller of a settled call goes on.
PassStepReturns ==
  \E i \in 1..MaxCalls, ok \in Outcomes :
    MigrateRead(i, ok) \/ ForceRead(i, ok) \/ PassUpload(i, ok) \/ PassDelete(i, ok)

FairSpec ==
  /\ InitAlone /\ [][MigrationNext]_vars
  /\ SF_vars(PassStepReturns) /\ WF_vars(Deliver)

\* No forceFullMigration() is called: the automatic passes alone, next to
\* saves, deletes and page fetches.  Summaries are not written: no step of
\* these calls reads one.
NextNoForce ==
  \/ Tick
  \/ Deliver
  \/ TimerFire
  \/ DirectMigrate
  \/ \E i \in 1..MaxCalls, ok \in Outcomes : MigrateRead(i, ok)
  \/ \E i \in 1..MaxCalls, ok \in Outcomes : PassUpload(i, ok)
  \/ \E i \in 1..MaxCalls, ok \in Outcomes : PassDelete(i, ok)
  \/ \E age \in SaveAges, ok \in Outcomes : SaveRide(age, ok)
  \/ \E id \in 1..MaxRides, ok \in Outcomes : DeleteLocal(id, ok)
  \/ \E c \in Callers, ok \in Outcomes : DeleteRemote(c, ok)
  \/ PageLocal
  \/ \E c \in Callers, ok \in Outcomes : GetRecentRidesReturns(c, ok)
  \/ \E c \in Callers, ok \in Outcomes : PageRemote(c, ok)
  \/ PageAfterSave

NoForceSpec == Init /\ [][NextNoForce]_vars

\* Summaries are written next to saves, deletes and the automatic passes;
\* each adapter call of an update or of a pass returns or throws, those of
\* saves and deletes return.
UpdateNext ==
  \/ Tick
  \/ Deliver
  \/ TimerFire
  \/ \E i \in 1..MaxCalls, ok \in Outcomes : MigrateRead(i, ok)
  \/ \E i \in 1..MaxCalls, ok \in Outcomes : PassUpload(i, ok)
  \/ \E i \in 1..MaxCalls, ok \in Outcomes : PassDelete(i, ok)
  \/ \E age \in SaveAges : SaveRide(age, TRUE)
  \/ \E id \in 1..MaxRides : DeleteLocal(id, TRUE)
  \/ \E c \in Callers : DeleteRemote(c, TRUE)
  \/ \E id \in 0..MaxRides, text \in Texts, ok \in Outcomes : UpdateLocal(id, text, ok)
  \/ \E c \in Callers, ok \in Outcomes : UpdateRemote(c, ok)

UpdateSpec == Init /\ [][UpdateNext]_vars

\* The tier filters on a local store that already holds rides of every age
\* around the boundary (the app starts with the rides of earlier sessions).
TierAges == {0, HOURS_24 - TickMs, HOURS_24, HOURS_24 + TickMs}

TierInit ==
  /\ clock = StartClock
  /\ local \in {{Ride(i, StartClock - f[i], NoSummary) : i \in 1..MaxRides} :
                  f \in [1..MaxRides -> TierAges]}
  /\ remote = {}
  /\ nextId = MaxRides + 1
  /\ isMigrating = FALSE
  /\ timers = 0
  /\ passes = <<>>
  /\ user = NoUsers
  /\ ret = NoRet
  /\ deleted = {}
  /\ updated = NoUpdates
  /\ facade = NoFacade

TierNext ==
  \/ Tick
  \/ Deliver
  \/ DirectMigrate
  \/ \E i \in 1..MaxCalls, ok \in Outcomes : MigrateRead(i, ok)
  \/ PageLocal
  \/ \E c \in Callers, ok \in Outcomes : GetRecentRidesReturns(c, ok)
  \/ \E c \in Callers, ok \in Outcomes : PageRemote(c, ok)

TierSpec == TierInit /\ [][TierNext]_vars

\* initialize() at the start of the app and whenever the ride history is
\* loaded, on a store that holds the rides of earlier sessions, next to the
\* other calls of migrateOldRides().
InitNext ==
  \/ Tick
  \/ Deliver
  \/ DirectMigrate
  \/ \E ok \in Outcomes : Initialize(0, ok)
  \/ \E i \in 1..MaxCalls, ok \in Outcomes : MigrateRead(i, ok)
  \/ \E i \in 1..MaxCalls, ok \in Outcomes : PassUpload(i, ok)
  \/ \E i \in 1..MaxCalls, ok \in Outcomes : PassDelete(i, ok)

InitSpec == TierInit /\ [][InitNext]_vars

\* ------------------------------------------------- checkDataIntegrity
\* checkDataIntegrity() is called by a caller that has no call in flight and
\* waits for its first local read; sync says that it is called as soon as a
\* forceFullMigration() has returned
IntegrityCall(sync) ==
  /\ \E c \in Callers :
       /\ FirstFree(c)
       /\ user' = [user EXCEPT ![c] =
                     [IdleUser EXCEPT !.op = "integrity", !.pc = "integrityAll",
                                      !.sync = sync]]
  /\ ret' = NoRet
  /\ UNCHANGED <<clock, local, remote, nextId, isMigrating, timers, passes,
                 deleted, updated, facade>>

\* checkDataIntegrity() called when nothing has just settled
CheckDataIntegrity ==
  /\ Quiet
  /\ IntegrityCall(FALSE)

\* the caller of a forceFullMigration() that has returned goes on to
\* checkDataIntegrity() at once
IntegrityAfterForce ==
  /\ ret.op = "force" /\ ret.res = "ok"
  /\ IntegrityCall(TRUE)

\* a local read of checkDataIntegrity has thrown: nothing catches it
IntegrityFailed(c) ==
  [Settled("integrity", "localFailed", TRUE) EXCEPT
     !.by = c, !.sync = user[c].sync, !.faults = {"local"}]

\* await rideStorageService.getAllRides() of checkDataIntegrity returns the
\* rows Local holds at that moment, or throws
IntegrityAllRides(c, ok) ==
  /\ Quiet
  /\ c \in DOMAIN user
  /\ user[c].pc = "integrityAll"
  /\ IF ok
     THEN /\ user' = [user EXCEPT ![c].pc = "integrityRecent",
                                  ![c].localCount = Cardinality(local)]
          /\ UNCHANGED ret
     ELSE /\ ret' = IntegrityFailed(c)
          /\ user' = [user EXCEPT ![c] = IdleUser]
  /\ UNCHANGED <<clock, local, remote, nextId, isMigrating, timers, passes,
                 deleted, updated, facade>>

\* await this.getRecentRides() of checkDataIntegrity: the value is unused
IntegrityRecent(c, ok) ==
  /\ Quiet
  /\ c \in DOMAIN user
  /\ user[c].pc = "integrityRecent"
  /\ IF ok
     THEN /\ user' = [user EXCEPT ![c].pc = "integrityOld"]
          /\ UNCHANGED ret
     ELSE /\ ret' = IntegrityFailed(c)
          /\ user' = [user EXCEPT ![c] = IdleUser]
  /\ UNCHANGED <<clock, local, remote, nextId, isMigrating, timers, passes,
                 deleted, updated, facade>>

\* await this.getOldRides() of checkDataIntegrity
IntegrityOld(c, ok) ==
  /\ Quiet
  /\ c \in DOMAIN user
  /\ user[c].pc = "integrityOld"
  /\ IF ok
     THEN /\ \E all \in GetAllRides(local) :
               user' = [user EXCEPT ![c].pc = "integrityRemote",
                          ![c].oldLocalRidesCount = Len(GetOldRides(all, clock))]
          /\ UNCHANGED ret
     ELSE /\ ret' = IntegrityFailed(c)
          /\ user' = [user EXCEPT ![c] = IdleUser]
  /\ UNCHANGED <<clock, local, remote, nextId, isMigrating, timers, passes,
                 deleted, updated, facade>>

\* supabaseRidesService.getRideStats(): one per row of the user
RemoteTotalRides(rows) == Cardinality(rows)

\* the remote count of checkDataIntegrity returns, or throws and counts 0
IntegrityRemote(c, ok) ==
  /\ Quiet
  /\ c \in DOMAIN user
  /\ user[c].pc = "integrityRemote"
  /\ user' = [user EXCEPT ![c] = IdleUser]
  /\ ret' = [Settled("integrity", "ok", FALSE) EXCEPT
               !.by = c, !.sync = user[c].sync,
               !.faults = IF ok THEN {} ELSE {"remote"},
               !.localCount = user[c].localCount,
               !.remoteCount = IF ok THEN RemoteTotalRides(remote) ELSE 0,
               !.oldLocalRidesCount = user[c].oldLocalRidesCount]
  /\ UNCHANGED <<clock, local, remote, nextId, isMigrating, timers, passes,
                 deleted, updated, facade>>

\* ----------------------------------------------------- getAllRideStats
\* rideStorageService.getRideStats(): SELECT COUNT(*) FROM rides
LocalTotalRides(rows) == Cardinality(rows)

\* getAllRideStats() up to the end of the local stats; a local fault throws
StatsLocal(ok) ==
  /\ Quiet
  /\ \E c \in Callers :
       /\ FirstFree(c)
       /\ IF ok
          THEN /\ user' = [user EXCEPT ![c] =
                             [IdleUser EXCEPT !.op = "stats", !.pc = "statsRemote",
                                              !.localCount = LocalTotalRides(local)]]
               /\ UNCHANGED ret
          ELSE /\ ret' = [Settled("stats", "localFailed", TRUE) EXCEPT
                            !.by = c, !.faults = {"local"}]
               /\ UNCHANGED user
  /\ UNCHANGED <<clock, local, remote, nextId, isMigrating, timers, passes,
                 deleted, updated, facade>>

\* the remote stats return and are added, or throw and the local stats are
\* returned alone; totalCount is totalRides of the result
StatsRemote(c, ok) ==
  /\ Quiet
  /\ c \in DOMAIN user
  /\ user[c].pc = "statsRemote"
  /\ user' = [user EXCEPT ![c] = IdleUser]
  /\ ret' = [Settled("stats", "ok", FALSE) EXCEPT
               !.by = c,
               !.faults = IF ok THEN {} ELSE {"remote"},
               !.localCount = user[c].localCount,
               !.remoteCount = IF ok THEN RemoteTotalRides(remote) ELSE 0,
               !.totalCount = IF ok THEN user[c].localCount + RemoteTotalRides(remote)
                              ELSE user[c].localCount]
  /\ UNCHANGED <<clock, local, remote, nextId, isMigrating, timers, passes,
                 deleted, updated, facade>>

\* forceFullMigration() and checkDataIntegrity() on a local store that holds
\* rides of the ages around the boundary, and rides 1h and 30h old.
HOURS_1 == HOURS_24 \div 24

ForceAges == TierAges \cup {HOURS_1, 30 * HOURS_1}

ForceInit ==
  /\ clock = StartClock
  /\ local \in {{Ride(i, StartClock - f[i], NoSummary) : i \in 1..MaxRides} :
                  f \in [1..MaxRides -> ForceAges]}
  /\ remote = {}
  /\ nextId = MaxRides + 1
  /\ isMigrating = FALSE
  /\ timers = 0
  /\ passes = <<>>
  /\ user = NoUsers
  /\ ret = NoRet
  /\ deleted = {}
  /\ updated = NoUpdates
  /\ facade = NoFacade

ForceNext ==
  \/ Tick
  \/ Deliver
  \/ ForceCall
  \/ \E i \in 1..MaxCalls, ok \in Outcomes : ForceRead(i, ok)
  \/ \E i \in 1..MaxCalls, ok \in Outcomes : PassUpload(i, ok)
  \/ \E i \in 1..MaxCalls, ok \in Outcomes : PassDelete(i, ok)
  \/ CheckDataIntegrity
  \/ IntegrityAfterForce
  \/ \E c \in Callers, ok \in Outcomes : IntegrityAllRides(c, ok)
  \/ \E c \in Callers, ok \in Outcomes : IntegrityRecent(c, ok)
  \/ \E c \in Callers, ok \in Outcomes : IntegrityOld(c, ok)
  \/ \E c \in Callers, ok \in Outcomes : IntegrityRemote(c, ok)

ForceSpec == ForceInit /\ [][ForceNext]_vars

\* ------------------------------------------------------ page traversals
\* the cursors a caller may pass: none, one newer than every row, and the
\* timestamp of any row
Cursors == {NoCursor, StartClock} \cup {r.ts : r \in remote}

\* getPaginatedRides(cursor, pageSize) called when nothing has just settled
PageAt(cursor, pageSize) ==
  /\ Quiet
  /\ cursor \in Cursors
  /\ PageFrom(0, cursor, pageSize, <<>>, cursor = NoCursor)

\* the caller of a getPaginatedRides() that reported more rows calls again
\* with the cursor it was given, and keeps the rows it has
PageNext ==
  /\ ret.op = "page" /\ ret.res = "ok" /\ ret.hasMoreRemote
  /\ PageFrom(0, ret.nextCursor, ret.pageSize, ret.seen \o ret.remoteRides,
              ret.walk)

\* Unchanged stores: Remote holds 0..MaxRows rows of pairwise distinct
\* timestamps, all older than 24h; Local holds up to two rides, recent or old.
\* One caller reads them: no call writes, so what a call is given does not
\* depend on the calls of another caller.
WalkLocals ==
  {{}, {Ride(MaxRows + 1, StartClock, NoSummary)},
   {Ride(MaxRows + 1, StartClock, NoSummary),
    Ride(MaxRows + 2, StartClock - TickMs, NoSummary)},
   {Ride(MaxRows + 1, StartClock, NoSummary),
    Ride(MaxRows + 2, StartClock - HOURS_24, NoSummary)}}

WalkRows(n) == {Ride(i, StartClock - HOURS_24 - i * TickMs, NoSummary) : i \in 1..n}

WalkInit ==
  /\ clock = StartClock
  /\ local \in WalkLocals
  /\ remote \in {WalkRows(n) : n \in 0..MaxRows}
  /\ nextId = MaxRows + 3
  /\ isMigrating = FALSE
  /\ timers = 0
  /\ passes = <<>>
  /\ user = OneUser
  /\ ret = NoRet
  /\ deleted = {}
  /\ updated = NoUpdates
  /\ facade = NoFacade

PageSizes == {1, 2, 3, PAGE_SIZE}

AllCursors == {NoCursor, StartClock} \cup {r.ts : r \in WalkRows(MaxRows)}

WalkNext ==
  \/ Deliver
  \/ \E c \in AllCursors, n \in PageSizes : PageAt(c, n)
  \/ \E c \in Callers, ok \in Outcomes : GetRecentRidesReturns(c, ok)
  \/ \E c \in Callers, ok \in Outcomes : PageRemote(c, ok)
  \/ PageNext
  \/ \E ok \in Outcomes : StatsLocal(ok)
  \/ \E c \in Callers, ok \in Outcomes : StatsRemote(c, ok)

WalkSpec == WalkInit /\ [][WalkNext]_vars

\* Unchanged stores whose remote rows may share a timestamp: up to MaxTied
\* rows, each with one of two timestamps; Local is empty.
TiedRows(f) ==
  {Ride(i, StartClock - HOURS_24 - f[i] * TickMs, NoSummary) : i \in DOMAIN f}

TieInit ==
  /\ clock = StartClock
  /\ local = {}
  /\ remote \in UNION {{TiedRows(f) : f \in [1..n -> 1..2]} : n \in 0..MaxTied}
  /\ nextId = MaxTied + 1
  /\ isMigrating = FALSE
  /\ timers = 0
  /\ passes = <<>>
  /\ user = OneUser
  /\ ret = NoRet
  /\ deleted = {}
  /\ updated = NoUpdates
  /\ facade = NoFacade

TieSpec == TieInit /\ [][WalkNext]_vars

\* ------------------------------------------- races with no adapter fault
\* Saves, deletes, updates and migration passes interleave and every adapter
\* call returns (an upload is still rejected when it hits a stored id).
RaceNext ==
  \/ Tick
  \/ Deliver
  \/ TimerFire
  \/ ForceCall
  \/ \E i \in 1..MaxCalls : MigrateRead(i, TRUE)
  \/ \E i \in 1..MaxCalls : ForceRead(i, TRUE)
  \/ \E i \in 1..MaxCalls : PassUpload(i, TRUE)
  \/ \E i \in 1..MaxCalls : PassDelete(i, TRUE)
  \/ \E age \in SaveAges : SaveRide(age, TRUE)
  \/ \E id \in 1..MaxRides : DeleteLocal(id, TRUE)
  \/ \E c \in Callers : DeleteRemote(c, TRUE)
  \/ \E id \in 1..MaxRides, text \in Texts : UpdateLocal(id, text, TRUE)

RaceSpec == Init /\ [][RaceNext]_vars

\* ------------------------------------------------ migration convergence
\* Remote is reachable and authenticated: every read and every upload gets
\* its answer (an upload that hits a stored id is answered with an error); a
\* local delete may throw.  Local starts with the rides of earlier sessions.
ConvergeNext ==
  \/ Tick
  \/ Deliver
  \/ DirectMigrate
  \/ ForceCall
  \/ \E i \in 1..MaxCalls : MigrateRead(i, TRUE)
  \/ \E i \in 1..MaxCalls : ForceRead(i, TRUE)
  \/ \E i \in 1..MaxCalls : PassUpload(i, TRUE)
  \/ \E i \in 1..MaxCalls, ok \in Outcomes : PassDelete(i, ok)

\* a pass step whose adapter call returns
ReadReturns == \E i \in 1..MaxCalls : MigrateRead(i, TRUE) \/ ForceRead(i, TRUE)

UploadReturns == \E i \in 1..MaxCalls : PassUpload(i, TRUE)

DeleteReturns == \E i \in 1..MaxCalls : PassDelete(i, TRUE)

\* Passes keep being triggered, every call gets its answer, and local
\* deletes work again and again.
ConvergeSpec ==
  /\ TierInit /\ [][ConvergeNext]_vars
  /\ SF_vars(DirectMigrate) /\ WF_vars(Deliver)
  /\ SF_vars(ReadReturns) /\ SF_vars(UploadReturns) /\ SF_vars(DeleteReturns)

\* A remote call may never be answered: uploadRides awaits the insert with
\* no timeout, so nothing but the answer ends the await.  Local calls
\* return, the caller of a settled call goes on, and migrateOldRides() keeps
\* being called.
LocalStepReturns ==
  \E i \in 1..MaxCalls, ok \in Outcomes :
    MigrateRead(i, ok) \/ ForceRead(i, ok) \/ PassDelete(i, ok)

StallSpec ==
  /\ InitAlone /\ [][MigrationNext]_vars
  /\ SF_vars(LocalStepReturns) /\ WF_vars(Deliver) /\ SF_vars(DirectMigrate)

\* ------------------------------------------------- the facade (useAppStore)
\* caller c is inside a loadRideHistory(): called from the screen, or by its
\* stopRideTracking, forceSync or deleteRide
Loads == {"load", "stopLoad", "syncLoad", "deleteLoad"}

\* the store as the loadRideHistory() of caller c sets it before its first
\* await; stage says who called it
LoadRideHistoryFrom(c, stage) ==
  [facade EXCEPT !.acts[c].pc = stage, !.isLoading = TRUE]

\* loadRideHistory() up to its first await: isLoading is set and
\* initialize() is called, which waits for initializeDatabase()
LoadRideHistoryCall ==
  /\ Quiet
  /\ \E c \in Callers : FirstFree(c) /\ facade' = LoadRideHistoryFrom(c, "load")
  /\ UNCHANGED <<clock, local, remote, nextId, isMigrating, timers, passes, user,
                 ret, deleted, updated>>

\* the initialize() the loadRideHistory of caller c awaits goes on from
\* initializeDatabase()
LoadInitialize(c, ok) ==
  /\ facade.acts[c].pc \in Loads
  /\ user[c] = IdleUser
  /\ \A i \in 1..Len(passes) : passes[i].by # c
  /\ Initialize(c, ok)

\* initialize() has returned: loadRideHistory calls getPaginatedRides()
LoadAfterInitialize(c) ==
  /\ facade.acts[c].pc \in Loads
  /\ ret.by = c
  /\ ret.op = "init" /\ ~ret.exc
  /\ PageFromBy(c, 0, NoCursor, PAGE_SIZE, <<>>, TRUE)

\* getPaginatedRides() has returned and its result is set, or it or
\* initialize() has thrown and the catch block runs; then finally
LoadSettled(c) ==
  /\ facade.acts[c].pc \in Loads
  /\ ret.by = c
  /\ ret.op = "page" \/ (ret.op = "init" /\ ret.exc)
  /\ LET ends == IF facade.acts[c].pc = "load" THEN NoAct ELSE facade.acts[c]
     IN facade' = IF ret.exc
                   THEN [facade EXCEPT !.acts[c] = ends, !.isLoading = FALSE]
                   ELSE [facade EXCEPT !.acts[c] = ends, !.isLoading = FALSE,
                                       !.localRides = ret.localRides,
                                       !.remoteRides = ret.remoteRides,
                                       !.hasMoreRemoteRides = ret.hasMoreRemote,
                                       !.nextRemoteCursor = ret.nextCursor,
                                       !.totalRideCount = ret.totalCount]
  /\ ret' = [Settled("loadRideHistory", IF ret.exc THEN "failed" ELSE "ok", FALSE)
               EXCEPT !.by = c, !.faults = ret.faults]
  /\ UNCHANGED <<clock, local, remote, nextId, isMigrating, timers, passes, user,
                 deleted, updated>>

\* the store as the catch and finally blocks of the stopRideTracking or
\* forceSync of caller c leave it
CallerEnds(c) == [facade EXCEPT !.acts[c] = NoAct, !.isLoading = FALSE]

\* stopRideTracking() up to its first await: isLoading is set and
\* rideTrackerService.stopTracking() is called
StopRideTrackingCall ==
  /\ Quiet
  /\ \E c \in Callers :
       /\ FirstFree(c)
       /\ facade' = [facade EXCEPT !.acts[c].pc = "stopTracker",
                                   !.isLoading = TRUE]
  /\ UNCHANGED <<clock, local, remote, nextId, isMigrating, timers, passes, user,
                 ret, deleted, updated>>

\* stopTracking() has settled.  moved: it returned a ride with distance and
\* duration and saveRide is called; else it threw or nothing was recorded,
\* and stopRideTracking ends
StopTracked(c, moved) ==
  /\ Quiet
  /\ facade.acts[c].pc = "stopTracker"
  /\ moved => nextId <= MaxRides
  /\ facade' = IF moved THEN [facade EXCEPT !.acts[c].pc = "stopSave"]
                ELSE CallerEnds(c)
  /\ UNCHANGED <<clock, local, remote, nextId, isMigrating, timers, passes, user,
                 ret, deleted, updated>>

\* the saveRide stopRideTracking awaits returns the id or throws
StopSave(c, age, ok) ==
  /\ facade.acts[c].pc = "stopSave"
  /\ SaveRideBy(c, age, ok)

\* saveRide has settled: with the id, generateSummaryWithQueue is called;
\* what it threw reaches the outer catch
StopSaved(c) ==
  /\ facade.acts[c].pc = "stopSave"
  /\ ret.op = "save" /\ ret.by = c
  /\ facade' = IF ret.exc THEN CallerEnds(c)
                ELSE [facade EXCEPT !.acts[c].pc = "stopSummary",
                                    !.acts[c].rideId = ret.id]
  /\ ret' = NoRet
  /\ UNCHANGED <<clock, local, remote, nextId, isMigrating, timers, passes, user,
                 deleted, updated>>

\* generateSummaryWithQueue returns a summary (it catches what its calls
\* throw) and updateRideAISummary is called
StopSummary(c) ==
  /\ Quiet
  /\ facade.acts[c].pc = "stopSummary"
  /\ facade' = [facade EXCEPT !.acts[c].pc = "stopUpdate"]
  /\ UNCHANGED <<clock, local, remote, nextId, isMigrating, timers, passes, user,
                 ret, deleted, updated>>

\* the local update of that updateRideAISummary returns or throws
StopUpdate(c, text, ok) ==
  /\ facade.acts[c].pc = "stopUpdate"
  /\ UpdateLocalBy(c, facade.acts[c].rideId, text, ok)

\* updateRideAISummary has settled; what it threw is caught and logged.
\* loadRideHistory() is called
StopUpdated(c) ==
  /\ facade.acts[c].pc = "stopUpdate"
  /\ ret.op = "update" /\ ret.by = c
  /\ facade' = LoadRideHistoryFrom(c, "stopLoad")
  /\ ret' = NoRet
  /\ UNCHANGED <<clock, local, remote, nextId, isMigrating, timers, passes, user,
                 deleted, updated>>

\* forceSync() up to its first await: isLoading is set and
\* forceFullMigration() is called
ForceSyncCall ==
  \E c \in Callers :
    /\ FirstFree(c)
    /\ ForceCallSets([facade EXCEPT !.acts[c].pc = "syncForce",
                                    !.isLoading = TRUE], c)

\* forceFullMigration() has settled: loadRideHistory() is called, or what
\* was thrown reaches the catch
ForceSyncSettled(c) ==
  /\ facade.acts[c].pc = "syncForce"
  /\ ret.op = "force" /\ ret.by = c
  /\ facade' = IF ret.exc THEN CallerEnds(c)
                ELSE LoadRideHistoryFrom(c, "syncLoad")
  /\ ret' = NoRet
  /\ UNCHANGED <<clock, local, remote, nextId, isMigrating, timers, passes, user,
                 deleted, updated>>

\* the loadRideHistory() the stopRideTracking, forceSync or deleteRide of
\* caller c awaits has returned: the notification, then the finally block
\* of the first two (deleteRide has none)
ReloadSettled(c) ==
  /\ facade.acts[c].pc \in {"stopLoad", "syncLoad", "deleteLoad"}
  /\ ret.op = "loadRideHistory" /\ ret.by = c
  /\ facade' = IF facade.acts[c].pc = "deleteLoad"
                THEN [facade EXCEPT !.acts[c] = NoAct]
                ELSE CallerEnds(c)
  /\ ret' = NoRet
  /\ UNCHANGED <<clock, local, remote, nextId, isMigrating, timers, passes, user,
                 deleted, updated>>

\* setLoading(loading)
SetLoading(loading) ==
  /\ Quiet
  /\ facade.isLoading # loading
  /\ facade' = [facade EXCEPT !.isLoading = loading]
  /\ UNCHANGED <<clock, local, remote, nextId, isMigrating, timers, passes, user,
                 ret, deleted, updated>>

\* a function of the store waits for the call that has settled
FacadeAwaits == ret.by \in Callers /\ facade.acts[ret.by].pc # "none"

\* the caller of any other settled call goes on
FacadeDeliver ==
  /\ ~FacadeAwaits
  /\ Deliver

\* Rides are tracked and saved, the ride history is loaded and a sync is
\* forced, Remote reachable or not, next to the passes the timers of
\* saveRide start.
FacadeNext ==
  \/ Tick
  \/ FacadeDeliver
  \/ TimerFire
  \/ \E i \in 1..MaxCalls, ok \in Outcomes : MigrateRead(i, ok)
  \/ \E i \in 1..MaxCalls, ok \in Outcomes : ForceRead(i, ok)
  \/ \E i \in 1..MaxCalls, ok \in Outcomes : PassUpload(i, ok)
  \/ \E i \in 1..MaxCalls, ok \in Outcomes : PassDelete(i, ok)
  \/ StopRideTrackingCall
  \/ \E c \in Callers, moved \in BOOLEAN : StopTracked(c, moved)
  \/ \E c \in Callers, age \in SaveAges, ok \in Outcomes : StopSave(c, age, ok)
  \/ \E c \in Callers : StopSaved(c)
  \/ \E c \in Callers : StopSummary(c)
  \/ \E c \in Callers, text \in Texts, ok \in Outcomes : StopUpdate(c, text, ok)
  \/ \E c \in Callers, ok \in Outcomes : UpdateRemote(c, ok)
  \/ \E c \in Callers : StopUpdated(c)
  \/ ForceSyncCall
  \/ \E c \in Callers : ForceSyncSettled(c)
  \/ \E c \in Callers : ReloadSettled(c)
  \/ \E loading \in BOOLEAN : SetLoading(loading)
  \/ LoadRideHistoryCall
  \/ \E c \in Callers, ok \in Outcomes : LoadInitialize(c, ok)
  \/ \E c \in Callers : LoadAfterInitialize(c)
  \/ \E c \in Callers, ok \in Outcomes : GetRecentRidesReturns(c, ok)
  \/ \E c \in Callers, ok \in Outcomes : PageRemote(c, ok)
  \/ \E c \in Callers : LoadSettled(c)

FacadeSpec == Init /\ [][FacadeNext]_vars

\* The ride history is loaded, by the screen that mounts and by a second
\* caller, on a local store that holds the rides of earlier sessions, Remote
\* reachable or not.
LoadNext ==
  \/ Tick
  \/ FacadeDeliver
  \/ LoadRideHistoryCall
  \/ \E c \in Callers, ok \in Outcomes : LoadInitialize(c, ok)
  \/ \E i \in 1..MaxCalls, ok \in Outcomes : MigrateRead(i, ok)
  \/ \E i \in 1..MaxCalls, ok \in Outcomes : PassUpload(i, ok)
  \/ \E i \in 1..MaxCalls, ok \in Outcomes : PassDelete(i, ok)
  \/ \E c \in Callers : LoadAfterInitialize(c)
  \/ \E c \in Callers, ok \in Outcomes : GetRecentRidesReturns(c, ok)
  \/ \E c \in Callers, ok \in Outcomes : PageRemote(c, ok)
  \/ \E c \in Callers : LoadSettled(c)

LoadSpec == TierInit /\ [][LoadNext]_vars

\* ----------------------------------------------- loadMoreRides, deleteRide
\* mutant: loadMoreRides looks at hasMoreRemoteRides only
LoadMoreSkipsUnflagged(state) == ~state.hasMoreRemoteRides

\* the guard of loadMoreRides on the state it reads with get()
LoadMoreSkips(state) == state.isLoadingMore \/ ~state.hasMoreRemoteRides

\* loadMoreRides() up to its await: the guard is passed (else the call
\* returns having done nothing), isLoadingMore is set and getPaginatedRides
\* is called with the cursor of state, the store as the call found it
LoadMoreCall ==
  /\ Quiet
  /\ Len(facade.more) < MaxCalls
  /\ ~LoadMoreSkips(facade)
  /\ facade' = [facade EXCEPT
                  !.isLoadingMore = TRUE,
                  !.more = Append(@, [pc |-> "local",
                                      remoteRides |-> facade.remoteRides,
                                      cursor |-> facade.nextRemoteCursor,
                                      localRides |-> <<>>])]
  /\ UNCHANGED <<clock, local, remote, nextId, isMigrating, timers, passes, user,
                 ret, deleted, updated>>

\* the store after the catch and finally blocks of loadMoreRides call i
LoadMoreFailed(i) ==
  [facade EXCEPT !.isLoadingMore = FALSE, !.more = RemoveAt(@, i)]

\* getRecentRides() of the getPaginatedRides loadMoreRides awaits returns
\* or throws
LoadMoreLocal(i, ok) ==
  /\ Quiet
  /\ i \in 1..Len(facade.more)
  /\ facade.more[i].pc = "local"
  /\ IF ok
     THEN \E all \in GetAllRides(local) :
            facade' = [facade EXCEPT
                         !.more[i].pc = "remote",
                         !.more[i].localRides =
                            LocalRidesPage(GetRecentRides(all, clock), PAGE_SIZE)]
     ELSE facade' = LoadMoreFailed(i)
  /\ UNCHANGED <<clock, local, remote, nextId, isMigrating, timers, passes, user,
                 ret, deleted, updated>>

\* the remote page of that getPaginatedRides returns and loadMoreRides sets
\* its result after the remoteRides of state, or it throws; then finally
LoadMoreRemote(i, ok) ==
  /\ Quiet
  /\ i \in 1..Len(facade.more)
  /\ facade.more[i].pc = "remote"
  /\ IF ok
     THEN \E all \in NewestFirst(remote) :
            LET state == facade.more[i]
                remoteData == RemotePage(all, state.cursor, PAGE_SIZE)
            IN facade' = [facade EXCEPT
                            !.remoteRides = state.remoteRides \o remoteData.rides,
                            !.hasMoreRemoteRides = remoteData.hasMore,
                            !.nextRemoteCursor = remoteData.nextCursor,
                            !.totalRideCount =
                               Len(state.localRides) + remoteData.totalCount,
                            !.isLoadingMore = FALSE,
                            !.more = RemoveAt(@, i)]
     ELSE facade' = LoadMoreFailed(i)
  /\ UNCHANGED <<clock, local, remote, nextId, isMigrating, timers, passes, user,
                 ret, deleted, updated>>

\* the coordinator's deleteRide has returned to the facade's deleteRide (it
\* never throws), which calls loadRideHistory: isLoading is set and
\* initialize() is called
FacadeDeleteThenLoad ==
  /\ ret.op = "delete" /\ ~ret.exc
  /\ ret.by \in Callers
  /\ facade' = LoadRideHistoryFrom(ret.by, "deleteLoad")
  /\ ret' = NoRet
  /\ UNCHANGED <<clock, local, remote, nextId, isMigrating, timers, passes, user,
                 deleted, updated>>

\* the caller of a settled loadRideHistory that the screen called goes on
FacadeSettledDeliver ==
  /\ ret.op = "loadRideHistory"
  /\ FacadeDeliver

\* The stores the ride list is loaded from: Remote holds no row, one page,
\* one row more, two pages and a row, or MaxRows rows; Local is empty or
\* holds a recent and an old ride.
ListLocals ==
  {{}, {Ride(MaxRows + 1, StartClock, NoSummary),
        Ride(MaxRows + 2, StartClock - HOURS_24, NoSummary)}}

ListRowCounts == {0, PAGE_SIZE, PAGE_SIZE + 1, 2 * PAGE_SIZE + 1, MaxRows}

ListInit ==
  /\ clock = StartClock
  /\ local \in ListLocals
  /\ remote \in {WalkRows(n) : n \in ListRowCounts}
  /\ nextId = MaxRows + 3
  /\ isMigrating = FALSE
  /\ timers = 0
  /\ passes = <<>>
  /\ user = NoUsers
  /\ ret = NoRet
  /\ deleted = {}
  /\ updated = NoUpdates
  /\ facade = NoFacade

\* the ids the screen asks to delete: on the first page, on the second, local
DeleteIds == {1, PAGE_SIZE + 1, MaxRows + 1}

\* The ride list is loaded, extended page by page and rides are deleted from
\* it by the facade's deleteRide; each adapter call of loadMoreRides returns
\* or throws, the other adapter calls return.
MoreNext ==
  \/ FacadeSettledDeliver
  \/ LoadRideHistoryCall
  \/ \E c \in Callers : LoadInitialize(c, TRUE)
  \/ \E i \in 1..MaxCalls : MigrateRead(i, TRUE)
  \/ \E i \in 1..MaxCalls : PassUpload(i, TRUE)
  \/ \E i \in 1..MaxCalls : PassDelete(i, TRUE)
  \/ \E c \in Callers : LoadAfterInitialize(c)
  \/ \E c \in Callers : GetRecentRidesReturns(c, TRUE)
  \/ \E c \in Callers : PageRemote(c, TRUE)
  \/ \E c \in Callers : LoadSettled(c)
  \/ \E c \in Callers : ReloadSettled(c)
  \/ LoadMoreCall
  \/ \E i \in 1..MaxCalls, ok \in Outcomes : LoadMoreLocal(i, ok)
  \/ \E i \in 1..MaxCalls, ok \in Outcomes : LoadMoreRemote(i, ok)
  \/ \E id \in DeleteIds : DeleteLocal(id, TRUE)
  \/ \E c \in Callers : DeleteRemote(c, TRUE)
  \/ FacadeDeleteThenLoad

MoreSpec == ListInit /\ [][MoreNext]_vars

\* The same with every adapter call returning.
AlongsideNext ==
  \/ FacadeSettledDeliver
  \/ LoadRideHistoryCall
  \/ \E c \in Callers : LoadInitialize(c, TRUE)
  \/ \E i \in 1..MaxCalls : MigrateRead(i, TRUE)
  \/ \E i \in 1..MaxCalls : PassUpload(i, TRUE)
  \/ \E i \in 1..MaxCalls : PassDelete(i, TRUE)
  \/ \E c \in Callers : LoadAfterInitialize(c)
  \/ \E c \in Callers : GetRecentRidesReturns(c, TRUE)
  \/ \E c \in Callers : PageRemote(c, TRUE)
  \/ \E c \in Callers : LoadSettled(c)
  \/ \E c \in Callers : ReloadSettled(c)
  \/ LoadMoreCall
  \/ \E i \in 1..MaxCalls : LoadMoreLocal(i, TRUE)
  \/ \E i \in 1..MaxCalls : LoadMoreRemote(i, TRUE)
  \/ \E id \in DeleteIds : DeleteLocal(id, TRUE)
  \/ \E c \in Callers : DeleteRemote(c, TRUE)
  \/ FacadeDeleteThenLoad

AlongsideSpec == ListInit /\ [][AlongsideNext]_vars

\* ------------------------------------------------------------------ claims
Stored == Ids(local) \cup Ids(remote)

\* C1: no ride is ever lost.  Every ride saveRide has returned the id of and
\* deleteRide has never been called with is in Local or in Remote, whatever
\* the calls interleaved and whichever adapter calls throw.
C1_NoRideLost == \A id \in 1..(nextId - 1) : id \notin deleted => id \in Stored

\* one ride has been migrated and is in Remote alone; the upload of a later
\* pass has thrown and its old ride is still in Local alone
C1_Witness ==
  /\ ret.res = "uploadFailed"
  /\ \E r \in local : IsOldRide(r, clock) /\ r.id \notin Ids(remote)
  /\ \E id \in Ids(remote) \ Ids(local) : id \notin deleted

\* C2: migration safety.  The step in which the upload of a migrateOldRides()
\* pass throws leaves Local as it was, the pass has issued no local delete,
\* and migrateOldRides() returns without throwing.
C2_MigrationSafety ==
  [][(ret' # ret /\ ret'.op = "migrate" /\ ret'.res = "uploadFailed")
       => (local' = local /\ ret'.del = {} /\ ~ret'.exc)]_vars

C2_Witness ==
  /\ ret.op = "migrate" /\ ret.res = "uploadFailed"
  /\ \E r \in local : IsOldRide(r, ret.cutoff + HOURS_24)

\* C3: upload before delete.  Every id a pass of migrateOldRides() or
\* forceFullMigration() has issued a local delete for is an id of the batch
\* whose upload the pass has seen return successfully.
C3_UploadBeforeDelete ==
  /\ \A i \in 1..Len(passes) : passes[i].del \subseteq passes[i].up
  /\ ret.del \subseteq ret.up

C3_Witness == ret.res = "ok" /\ ret.del # {} /\ ret.del \subseteq Ids(remote)

\* C4: at most one migration pass runs at a time, and the flag is set while
\* a pass is suspended at any of its awaits.
C4_OnePassAtATime ==
  /\ Len(passes) <= 1
  /\ Len(passes) = 1 => isMigrating

\* a call arrived while a pass was suspended, and was turned away
C4_Witness == Len(passes) = 1 /\ ret.res \in {"skipped", "inProgress"}

\* C5: a migrateOldRides() call made while another call is pending is a no-op:
\* it returns without touching Local, Remote, the flag or the pending pass,
\* so the two calls make one upload between them.
C5_SecondCallNoOp ==
  [][((TimerFire \/ DirectMigrate) /\ Len(passes) > 0)
       => /\ ret'.op = "migrate" /\ ret'.res = "skipped" /\ ~ret'.exc
          /\ isMigrating' /\ UNCHANGED <<local, remote, isMigrating, passes>>]_vars

C5_Witness ==
  /\ ret.op = "migrate" /\ ret.res = "skipped"
  /\ Len(passes) = 1 /\ passes[1].op = "migrate" /\ passes[1].pc = "upload"

\* C6: the flag is released.  Provided every adapter call returns or throws
\* in the end, a state with isMigrating = TRUE is followed by one with
\* isMigrating = FALSE.
C6_FlagReleased == isMigrating ~> ~isMigrating

\* a pass has just ended by an exception and the flag is down
C6_Witness ==
  /\ ret.res \in {"readFailed", "uploadFailed", "deleteFailed"}
  /\ ~isMigrating

\* C7 as claimed: with no pass in progress no id is in both tiers.
C7_TierUniqueness == ~isMigrating => Ids(local) \cap Ids(remote) = {}

\* C7 as amended: when a migration pass has ended successfully, no ride it
\* uploaded that was at or before its cutoff (24h old or older) is in Local;
\* the rides forceFullMigration() uploaded while they were inside the 24h
\* window stay in both tiers.
C7_UploadedOldRidesLeaveLocal ==
  (ret.op \in {"migrate", "force"} /\ ret.res = "ok")
    => \A r \in local : r.id \in ret.up => r.ts > ret.cutoff

\* forceFullMigration() has deleted an old ride and kept a recent one it uploaded
C7_Witness ==
  /\ ret.op = "force" /\ ret.res = "ok" /\ ret.del # {}
  /\ \E r \in local : r.id \in ret.up /\ r.id \in Ids(remote)

C9_SaveSucceedsLocally ==
  /\ (ret.op = "save" /\ ret.res = "ok") => (~ret.exc /\ ret.id \in Ids(local))
  /\ ret.op = "migrate" => ~ret.exc

\* a timer set by saveRide has fired and a migrateOldRides() call has
\* failed at its upload without throwing
C9_Witness ==
  /\ ret.op = "migrate" /\ ret.res = "uploadFailed" /\ ~ret.exc
  /\ timers < nextId - 1

\* C10: save then fetch.  A getPaginatedRides() call made as soon as saveRide
\* has returned id, no deleteRide(id) having been called, and returning while
\* the ride is still inside the 24h window, has id in localRides and not in
\* remoteRides.
C10_SaveThenFetch ==
  (/\ ret.op = "page" /\ ret.res = "ok" /\ ret.after # 0
   /\ ret.after \notin deleted
   /\ \A r \in local \cup remote : r.id = ret.after => clock - r.ts < HOURS_24)
    => (/\ ret.after \in SeqIds(ret.localRides)
        /\ ret.after \notin SeqIds(ret.remoteRides))

\* the page holds the ride just saved and a ride migrated before
C10_Witness ==
  /\ ret.op = "page" /\ ret.res = "ok" /\ ret.after # 0
  /\ \E r \in local : r.id = ret.after /\ r.ts = clock
  /\ ret.after \in SeqIds(ret.localRides)
  /\ Len(ret.remoteRides) > 0

\* C11: forceFullMigration() called while a migration pass is in progress
\* rejects at once with 'Migration already in progress': the call throws,
\* starts no pass (so makes no adapter call), and leaves Local, Remote, the
\* flag and the pass that is running as they were.
C11_ForceRejectedWhileMigrating ==
  [][(ForceCall /\ isMigrating)
       => /\ ret'.op = "force" /\ ret'.res = "inProgress" /\ ret'.exc
          /\ isMigrating' /\ UNCHANGED <<local, remote, isMigrating, passes>>]_vars

\* forceFullMigration() was rejected while a pass waits for its upload
C11_Witness ==
  /\ ret.op = "force" /\ ret.res = "inProgress" /\ ret.exc
  /\ isMigrating /\ Len(passes) = 1 /\ passes[1].pc = "upload"

\* C13: forceFullMigration() failures propagate.  The step in which the
\* upload of a forceFullMigration() pass throws settles the call with an
\* exception, leaves Local as it was, has issued no local delete, and
\* leaves the flag down.
C13_ForceFailurePropagates ==
  [][(ret' # ret /\ ret'.op = "force" /\ ret'.res = "uploadFailed")
       => (ret'.exc /\ local' = local /\ ret'.del = {} /\ ~isMigrating')]_vars

\* the upload of a forced migration has thrown; its rides are still in Local
C13_Witness ==
  /\ ret.op = "force" /\ ret.res = "uploadFailed" /\ ret.exc /\ ~isMigrating
  /\ local # {} /\ Ids(local) \cap Ids(remote) = {}

\* C14 as claimed: update fallback.  When updateRideAISummary(id, text) has
\* returned without throwing for a ride that is in Remote and not in Local,
\* the Remote row of id carries text as its summary.
C14_UpdateFallback ==
  (ret.op = "update" /\ ~ret.exc /\ ret.id \in Ids(remote) \ Ids(local))
    => \A r \in remote : r.id = ret.id => r.sum = ret.text

\* C15 as claimed: updateRideAISummary(id, text) for an id that is in neither
\* store throws; it never reports success for a missing target.
C15_UpdateMissingFails ==
  (ret.op = "update" /\ ret.id \notin Stored) => ret.exc

\* C16: delete idempotence.  deleteRide(id) never throws; its local delete
\* leaves Local as it was when id is not in Local, its remote delete leaves
\* Remote as it was when id is not in Remote, so a call for an id in neither
\* tier (a second call after a successful one too) changes neither store.
C16_DeleteIdempotent ==
  [][\A c \in DOMAIN user :
       /\ (user[c].pc = "idle" /\ user'[c].pc = "deleteRemote")
            => /\ remote' = remote
               /\ user'[c].id \notin Ids(local) => local' = local
       /\ (user[c].pc = "deleteRemote" /\ user'[c].pc = "idle")
            => /\ ret'.op = "delete" /\ ~ret'.exc
               /\ local' = local
               /\ user[c].id \notin Ids(remote) => remote' = remote]_vars

\* deleteRide has returned for an id no store ever held, the stores not empty
C16_Witness ==
  /\ ret.op = "delete" /\ ret.res = "ok" /\ ~ret.exc /\ ret.id = 0
  /\ local # {} /\ remote # {}

\* C17: deleteRide(id) attempts the remote delete whatever the local delete
\* did.  When deleteRide(id) has returned and its remote delete did not
\* throw, id is not in Remote; when its local delete did not throw either,
\* id is not in Local, whichever tiers held it, a pass in flight or not.
C17_DeleteFromBothTiers ==
  (ret.op = "delete" /\ "remote" \notin ret.faults)
    => /\ ret.id \notin Ids(remote)
       /\ "local" \notin ret.faults => ret.id \notin Ids(local)

\* forceFullMigration() had uploaded the two recent rides, so both were in
\* both tiers; the local delete of ride 1 threw and its remote delete ran
C17_Witness ==
  /\ ret.op = "delete" /\ ret.faults = {"local"} /\ ret.id = 1
  /\ 1 \in Ids(local) \ Ids(remote)
  /\ 2 \in Ids(local) \cap Ids(remote)
  /\ \A r \in local : r.ts >= StartClock

\* the post-condition of a forceFullMigration() that has returned, where
\* a ride is old when its age at the cutoff instant is over 24h, or, if
\* inclusive, 24h or over: every ride that was in Local is uploaded, the
\* old ones are deleted locally and no others
ForcePostcondition(inclusive) ==
  (ret.op = "force" /\ ret.res = "ok")
    => /\ Ids(local) \cup ret.del \subseteq ret.up
       /\ ret.up \subseteq Ids(remote)
       /\ \A r \in remote : r.id \in ret.up =>
            LET age == (ret.cutoff + HOURS_24) - r.ts
                old == IF inclusive THEN age >= HOURS_24 ELSE age > HOURS_24
            IN  /\ old <=> r.id \in ret.del
                /\ old <=> r \notin local

\* with rides 30h and 1h old alone, a checkDataIntegrity() that follows
\* the forced migration counts the 1h-old rides as local and none as old
ForceExample ==
  (/\ ret.op = "integrity" /\ ret.res = "ok" /\ ret.sync
   /\ \A r \in remote : r.ts \in {StartClock - 30 * HOURS_1, StartClock - HOURS_1})
    => /\ local = {r \in remote : r.ts = StartClock - HOURS_1}
       /\ ret.localCount = Cardinality(local)
       /\ ret.oldLocalRidesCount = 0

Got == ret.seen \o ret.remoteRides

\* C18: pagination cursor correctness.  With remote rows of pairwise
\* distinct timestamps and the store unchanged, every page of a traversal
\* that began with no cursor and followed each nextCursor is such that the
\* rows given so far are the newest rows of Remote, each once, in descending
\* order of timestamp; hasMore is true iff more than pageSize rows matched
\* the query; a page with hasMore holds pageSize rows and its nextCursor is
\* the timestamp of its last row; on the last page hasMore is false,
\* nextCursor is null, and every row has been given exactly once.
C18_CursorTraversal ==
  (ret.op = "page" /\ ret.res = "ok" /\ ret.walk)
    => /\ Range(Got) \subseteq remote
       /\ \A i, j \in 1..Len(Got) : i < j => Got[i].ts > Got[j].ts
       /\ \A r \in remote \ Range(Got) : \A q \in Range(Got) : r.ts < q.ts
       /\ ret.hasMoreRemote <=> Cardinality(remote) - Len(ret.seen) > ret.pageSize
       /\ Len(ret.remoteRides) <= ret.pageSize
       /\ ret.hasMoreRemote
            => /\ Len(ret.remoteRides) = ret.pageSize
               /\ ret.nextCursor = ret.remoteRides[Len(ret.remoteRides)].ts
       /\ ~ret.hasMoreRemote
            => /\ ret.nextCursor = NoCursor
               /\ Range(Got) = remote /\ Len(Got) = Cardinality(remote)

\* 25 rows, pageSize 10: the third page has the last 5 rows and no more
C18_Witness ==
  /\ ret.op = "page" /\ ret.res = "ok" /\ ret.walk
  /\ Cardinality(remote) = 25 /\ ret.pageSize = 10
  /\ Len(ret.seen) = 20 /\ Len(ret.remoteRides) = 5
  /\ ~ret.hasMoreRemote /\ ret.nextCursor = NoCursor

\* C19: getPaginatedRides(cursor, pageSize) never paginates Local.  For
\* every cursor and pageSize, with the stores unchanged, localRides are all
\* the rides getRecentRides() gives, remoteRides, hasMoreRemote and
\* nextCursor are those of the one remote page for that cursor and
\* pageSize, and totalCount is the number of localRides plus the totalCount
\* of that remote page.
C19_LocalNeverPaginated ==
  (ret.op = "page" /\ ret.res = "ok")
    => /\ Range(ret.localRides) = {r \in local : IsRecentRide(r, clock)}
       /\ Len(ret.localRides) = Cardinality(Range(ret.localRides))
       /\ \E all \in NewestFirst(remote) :
            LET page == RemotePage(all, ret.cursor, ret.pageSize)
            IN /\ ret.remoteRides = page.rides
               /\ ret.hasMoreRemote = page.hasMore
               /\ ret.nextCursor = page.nextCursor
               /\ ret.totalCount = Len(ret.localRides) + page.totalCount

\* a page of size 1 from a cursor in the middle, with two recent local rides
C19_Witness ==
  /\ ret.op = "page" /\ ret.res = "ok"
  /\ ret.pageSize = 1 /\ Len(ret.localRides) = 2
  /\ ret.cursor # NoCursor /\ Len(ret.remoteRides) = 1 /\ ret.hasMoreRemote
  /\ ret.totalCount > 3

\* C20: getPaginatedRides propagates Remote read failures.  When the remote
\* fetch of a getPaginatedRides call has thrown, the call settles with an
\* exception and never as a successful result.
C20_RemoteFailurePropagates ==
  (ret.op = "page" /\ "remote" \in ret.faults) => (ret.exc /\ ret.res # "ok")

\* the remote fetch threw although Local had recent rides and Remote rows
C20_Witness ==
  /\ ret.op = "page" /\ "remote" \in ret.faults /\ ret.exc
  /\ \E r \in local : IsRecentRide(r, clock)
  /\ remote # {}

\* C21 as claimed: checkDataIntegrity() never throws, whichever adapter call
\* of it fails (the three local reads and the remote count).
C21_IntegrityNeverThrows == ret.op = "integrity" => ~ret.exc

\* C22: initialize() runs the local init and then one best-effort
\* migrateOldRides().  When initialize() has settled, it threw if and only
\* if the local init threw; no fault of the pass (local read, upload, local
\* delete) makes it throw; and when its call ran a pass (it was not skipped
\* because another pass held the flag), the flag is down and no pass is
\* left running.
C22_InitializeBestEffort ==
  ret.op = "init"
    => /\ ret.exc <=> ret.res = "localInitFailed"
       /\ ret.res \in {"ok", "readFailed", "uploadFailed", "deleteFailed"}
            => ~isMigrating /\ passes = <<>>

\* the upload of the pass of initialize() has thrown: initialize() returned
\* normally, the flag is down and the old ride is still in Local alone
C22_Witness ==
  /\ ret.op = "init" /\ ret.res = "uploadFailed" /\ ~ret.exc /\ ~isMigrating
  /\ \E r \in local : IsOldRide(r, clock) /\ r.id \notin Ids(remote)

\* C23 as claimed: when the remote call of getPaginatedRides() or of
\* getAllRideStats() has failed (no principal, or Remote unreachable), the
\* operation fails; it does not return figures that count no remote ride.
C23_NoEmptyArchiveFallback ==
  (ret.op \in {"page", "stats"} /\ "remote" \in ret.faults)
    => (ret.exc /\ ret.res # "ok")

\* the recent local set as the coordinator has it now
RecentLocal == {r \in local : IsRecentRide(r, clock)}

\* C24 as claimed: local-only availability.  When loadRideHistory() has
\* ended and the remote fetch of its getPaginatedRides() failed (Remote
\* unreachable or unauthenticated), the facade's localRides are the recent
\* local rides of the coordinator and isLoading is false.
C24_LocalOnlyAvailability ==
  (ret.op = "loadRideHistory" /\ ret.faults = {"remote"})
    => /\ ~facade.isLoading
       /\ Range(facade.localRides) = RecentLocal

\* C25 as claimed: unified view completeness.  With the stores unchanged and
\* Remote reachable, a traversal that began with no cursor and has reached
\* the page that reports no more rows has shown every ride held in Local
\* or in Remote: in localRides or in one of its remote pages.
C25_UnifiedViewComplete ==
  (ret.op = "page" /\ ret.res = "ok" /\ ret.walk /\ ~ret.hasMoreRemote)
    => Stored \subseteq SeqIds(ret.localRides) \cup SeqIds(Got)

\* C26 as claimed: a deleteRide(id) racing a migration pass is absorbed.
\* With every adapter call succeeding, when a pass that uploaded id has
\* returned and the deleteRide(id) calls have returned too, id is in
\* neither Local nor Remote.
C26_DeleteRaceAbsorbed ==
  (ret.op \in {"migrate", "force"} /\ ret.res = "ok" /\ Returned)
    => \A id \in ret.up \cap deleted : id \notin Stored

\* C27 as claimed: an updateRideAISummary(id, text) racing a migration pass
\* is absorbed.  With every adapter call succeeding, when a pass that uploaded
\* id has returned and the updateRideAISummary(id, text) calls have returned
\* too, the last of them without throwing, a stored copy of ride id carries
\* text as its summary (id never having been deleted).
C27_UpdateRaceAbsorbed ==
  (ret.op \in {"migrate", "force"} /\ ret.res = "ok" /\ Returned)
    => \A id \in ret.up \ deleted :
         updated[id] # NoSummary
           => \E r \in local \cup remote : r.id = id /\ r.sum = updated[id]

\* an old ride of Local that Remote holds too
Leftover == \E r \in local : IsOldRide(r, clock) /\ r.id \in Ids(remote)

\* C28 as claimed: a local delete failure after a successful upload yields
\* a temporary duplicate only.  migrateOldRides() does not throw, and with
\* Remote reachable, local deletes working again and passes going on, the
\* old rides left in both tiers are removed from Local in the end.
C28_DuplicateResolved ==
  /\ [](ret.res = "deleteFailed" /\ ret.op = "migrate" => ~ret.exc)
  /\ (ret.res = "deleteFailed" /\ ret.op = "migrate") ~> ~Leftover

\* C29 as claimed: migration convergence.  With Remote reachable and passes
\* going on, every local ride older than 24h is in the end absent from
\* Local and present in Remote, a ride that a forceFullMigration() uploaded
\* while it was recent, kept locally, and that has aged since, too.
C29_MigrationConverges ==
  \A id \in 1..MaxRides :
    (\E r \in local : r.id = id /\ IsOldRide(r, clock))
      ~> (id \notin Ids(local) /\ id \in Ids(remote))

\* C30 as claimed: a stalled remote call cannot hold the flag for ever.
\* Whenever the flag is up it comes down in the end, even when the upload
\* of the pass is never answered.
C30_StalledUploadBounded == isMigrating ~> ~isMigrating

\* C31: saveRide returns the id before any step of the migration it
\* schedules, and every saveRide that stored its ride adds one pending
\* migrateOldRides() call of its own.  Pending calls are neither cancelled
\* nor reset: their number goes up by one with each such save and down by
\* one with each call that fires, and a call that fires while a pass is in
\* progress returns at once and changes nothing.
C31_TimerPerSave ==
  [][/\ nextId' # nextId
          => /\ timers' = timers + 1 /\ nextId' = nextId + 1
             /\ ret'.op = "save" /\ ret'.id = nextId /\ nextId \in Ids(local')
             /\ UNCHANGED <<remote, isMigrating, passes>>
     /\ timers' # timers /\ nextId' = nextId
          => /\ timers' = timers - 1
             /\ IF isMigrating
                THEN /\ ret'.op = "migrate" /\ ret'.res = "skipped" /\ ~ret'.exc
                     /\ UNCHANGED <<local, remote, isMigrating, passes>>
                ELSE /\ isMigrating' /\ Len(passes') = Len(passes) + 1
                     /\ UNCHANGED <<local, remote>>]_vars

\* two rides were saved and both timers were pending at once; the first to
\* fire started the pass that is still waiting for its upload, the second
\* has just returned without doing anything
C31_Witness ==
  /\ nextId = 3 /\ timers = 0
  /\ ret.op = "migrate" /\ ret.res = "skipped"
  /\ isMigrating /\ Len(passes) = 1
  /\ passes[1].op = "migrate" /\ passes[1].pc = "upload"

\* the rows of Remote that share the timestamp of the last row of the k-th
\* page of the traversal and were in none of its first k pages
TiedOut(k) ==
  {r \in remote : /\ r.ts = ret.seen[k * ret.pageSize].ts
                  /\ r \notin Range(SubSeq(ret.seen, 1, k * ret.pageSize))}

\* C32: cursor tie edge case.  A page fetched with cursor c holds only rows
\* of timestamp strictly less than c; so, with the stores unchanged, a row
\* that shares the timestamp of the last row of an earlier page of the
\* traversal and was not returned up to that page is in no later page.
C32_CursorTieDropped ==
  (ret.op = "page" /\ ret.res = "ok")
    => /\ ret.cursor # NoCursor
            => \A i \in 1..Len(ret.remoteRides) : ret.remoteRides[i].ts < ret.cursor
       /\ ret.walk
            => \A k \in 1..(Len(ret.seen) \div ret.pageSize) :
                 TiedOut(k) \cap Range(Got) = {}

\* a traversal of four rows in pages of two has ended: the second and the
\* third row shared a timestamp, the third was in no page
C32_Witness ==
  /\ ret.op = "page" /\ ret.res = "ok" /\ ret.walk /\ ~ret.hasMoreRemote
  /\ Cardinality(remote) = 4 /\ ret.pageSize = 2 /\ Len(ret.seen) = 2
  /\ Len(ret.remoteRides) = 1
  /\ Cardinality(TiedOut(1)) = 1
  /\ ret.seen[2].ts > ret.remoteRides[1].ts

\* C33 as claimed: forceFullMigration() is repeatable.  Once a forced
\* migration has uploaded everything and the rides left in Local are all
\* inside the 24h window, a step of a later forceFullMigration() changes
\* neither store, and the call does not throw.
C33_ForceRepeatable ==
  [][(/\ local # {} /\ Ids(local) \subseteq Ids(remote)
      /\ \A r \in local : IsRecentRide(r, clock'))
       => /\ local' = local /\ remote' = remote
          /\ (ret' # ret /\ ret'.op = "force" /\ ret'.res # "inProgress")
               => ~ret'.exc]_vars

\* C34 as claimed: when deleteRide(id) returns without throwing, id is gone
\* from both tiers; a failed remote delete of a ride that Remote holds is
\* not reported as success.  (Stated for calls whose local delete worked.)
C34_DeleteSuccessMeansGone ==
  (ret.op = "delete" /\ ~ret.exc /\ "local" \notin ret.faults)
    => ret.id \notin Stored

\* C35 as claimed: with both stores unchanged, totalCount is the same for
\* every cursor: the local rides returned plus all remote rows of the user,
\* whichever page of a traversal that follows nextCursor is fetched.
C35_TotalCountStable ==
  (ret.op = "page" /\ ret.res = "ok" /\ ret.walk)
    => ret.totalCount = Len(ret.localRides) + Cardinality(remote)

\* C36: loadMoreRides is a no-op while isLoadingMore is set or when
\* hasMoreRemoteRides is false, so at most one page fetch of loadMoreRides
\* is in flight at any time, and isLoadingMore is false whenever no
\* loadMoreRides call is in flight.
C36_LoadMoreDeduplicated ==
  /\ [](/\ Len(facade.more) <= 1
        /\ facade.more = <<>> => ~facade.isLoadingMore)
  /\ [][LoadMoreSkips(facade) => Len(facade'.more) <= Len(facade.more)]_vars

\* a second page has been appended and the fetch of a third is in flight
C36_Witness ==
  /\ Len(facade.more) = 1
  /\ facade.more[1].pc = "remote"
  /\ facade.isLoadingMore
  /\ Len(facade.remoteRides) > PAGE_SIZE

\* C37: once the facade's deleteRide(id) and every facade action in flight
\* alongside it have settled, all adapter calls having succeeded, id is in
\* neither localRides nor remoteRides of the facade.
C37_DeletedLeavesLists ==
  (/\ Quiet /\ Returned /\ facade.more = <<>>
   /\ \A c \in Callers : facade.acts[c] = NoAct)
    => \A id \in deleted :
         id \notin SeqIds(facade.localRides) \cup SeqIds(facade.remoteRides)

====
